---------------------------- MODULE Spec2Model ----------------------------
(***************************************************************************)
(* The meeting-summary handlers of the repository:                         *)
(*   "mailtrapFirst"  src/functions/email-notion-summary/index.js 17-100   *)
(*   "latest"         src/functions/email-notion-summary/index.js 135-257  *)
(*   "netlify"        src/netlify/functions/send-email.js 8-72             *)
(*   "railway"        src/netlify/functions/send-email.js 80-143           *)
(* Each invocation queries the Notion database for pages whose "Sent"      *)
(* checkbox is false, and for every page extracts four text properties,    *)
(* renders an e-mail, sends it, (index.js only) calls the Flask API, and   *)
(* sets the page's "Sent" checkbox.                                        *)
(***************************************************************************)
EXTENDS Integers, Sequences, FiniteSets, TLC

\* ------------------------------------------------------------------ bounds
NumRecords == 2          \* pages in the Notion database
MaxLen == 3              \* longest property text drawn for rendering

Records == 1..NumRecords
Invs == {"A", "B"}       \* two invocations that may overlap
First == "A"             \* the invocation slot of the sequential runs
Variants == {"mailtrapFirst", "latest", "netlify", "railway"}
Fields == {"Meeting Name", "Summary", "Action Items", "Key Questions"}

\* -------------------------------------------------------------- text values
\* A string is a sequence of characters; NL is "\n".
NL == "\n"
Chars == {"a", " ", NL}
Whitespace == {" ", NL, "\t", "\r"}

RECURSIVE TextsUpTo(_)
TextsUpTo(n) ==
    IF n = 0 THEN {<< >>}
    ELSE LET shorter == TextsUpTo(n - 1)
         IN  shorter \cup {Append(t, c) : t \in {s \in shorter : Len(s) = n - 1}, c \in Chars}

\* The default strings of index.js (both variants) and of the Railway variant.
NoTitle == <<"N","o"," ","T","i","t","l","e">>
NoSummary == <<"N","o"," ","s","u","m","m","a","r","y"," ","p","r","o","v","i","d","e","d",".">>
NoActionItems == <<"N","o"," ","a","c","t","i","o","n"," ","i","t","e","m","s",".">>
NoKeyQuestions == <<"N","o"," ","k","e","y"," ","q","u","e","s","t","i","o","n","s",".">>
\* The default strings of exports.handler in send-email.js.
NoTitleNetlify == <<"N","o"," ","t","i","t","l","e">>
NoSummaryNetlify == <<"N","o"," ","s","u","m","m","a","r","y">>
NoActionItemsNetlify == <<"N","o"," ","a","c","t","i","o","n"," ","i","t","e","m","s">>
NoKeyQuestionsNetlify == <<"N","o"," ","k","e","y"," ","q","u","e","s","t","i","o","n","s">>

DefaultOf(v, f) ==
    IF v = "netlify"
    THEN CASE f = "Meeting Name" -> NoTitleNetlify
           [] f = "Summary" -> NoSummaryNetlify
           [] f = "Action Items" -> NoActionItemsNetlify
           [] OTHER -> NoKeyQuestionsNetlify
    ELSE CASE f = "Meeting Name" -> NoTitle
           [] f = "Summary" -> NoSummary
           [] f = "Action Items" -> NoActionItems
           [] OTHER -> NoKeyQuestions

\* ------------------------------------------------------- page properties
\* The value found at page.properties[name], by how far the access chain
\*   .title (or .rich_text) [0] .text .content
\* can be followed:
\*   <<"absent">>      the property is missing (undefined)
\*   <<"noList">>      the property has no title / rich_text key
\*   <<"emptyList">>   title / rich_text is []
\*   <<"noText">>      the first item has no text key (a mention, an equation)
\*   <<"content", s>>  the first item's text.content is the string s
Absent == <<"absent">>
NoList == <<"noList">>
EmptyList == <<"emptyList">>
NoText == <<"noText">>
Content(s) == <<"content", s>>
Shapes == {Absent, NoList, EmptyList, NoText}

\* ChainThrows with the chain of exports.handler (send-email.js) in every variant.
ChainThrowsNoOptional(v, p) == p \in {Absent, NoList, NoText}

\* Where the access chain raises a TypeError, per variant.
ChainThrows(v, p) ==
    CASE v \in {"mailtrapFirst", "latest"} -> FALSE                 \* ?.title?.[0]?.text?.content
      [] v = "railway" -> p = NoList                                 \* ?.title[0]?.text?.content
      [] OTHER -> p \in {Absent, NoList, NoText}                     \* .title[0]?.text.content

\* The value of the chain when it does not throw: a string, or undefined.
Undefined == <<"undefined">>
ChainValue(p) == IF p[1] = "content" THEN p[2] ELSE Undefined

\* OrDefault with ?? in place of || : only undefined is replaced.
OrDefaultNullish(v, f, p) ==
    LET x == ChainValue(p)
    IN  IF x = Undefined THEN DefaultOf(v, f) ELSE x

\* chain || default : undefined and "" are falsy.
OrDefault(v, f, p) ==
    LET x == ChainValue(p)
    IN  IF x = Undefined \/ x = << >> THEN DefaultOf(v, f) ELSE x

ExtractThrows(v, page) == \E f \in Fields : ChainThrows(v, page[f])

Extract(v, page) == [f \in Fields |-> OrDefault(v, f, page[f])]

\* ---------------------------------------------------------------- rendering
RECURSIVE Split(_)
\* s.split("\n")
Split(s) ==
    IF \A k \in 1..Len(s) : s[k] # NL THEN <<s>>
    ELSE LET k == CHOOSE j \in 1..Len(s) : s[j] = NL /\ \A h \in 1..(j - 1) : s[h] # NL
         IN  <<SubSeq(s, 1, k - 1)>> \o Split(SubSeq(s, k + 1, Len(s)))

\* s.trim()
Trim(s) ==
    LET keep == {k \in 1..Len(s) : s[k] \notin Whitespace}
    IN  IF keep = {} THEN << >>
        ELSE SubSeq(s, CHOOSE k \in keep : \A h \in keep : k <= h,
                       CHOOSE k \in keep : \A h \in keep : h <= k)

Truthy(s) == s # << >>

\* The <li> items of a list section: the text between each <li> and </li>.
ListItems(v, s) ==
    IF v = "netlify" THEN Split(s)                                   \* split.map
    ELSE SelectSeq(Split(s), LAMBDA i : Truthy(Trim(i)))             \* split.filter.map

\* summary.replace(/\n/g, "<br>") ; exports.handler of send-email.js inserts summary as is.
SummaryHtml(v, s) ==
    IF v = "netlify" THEN s
    ELSE [k \in 1..Len(s) |-> IF s[k] = NL THEN "<br>" ELSE s[k]]

\* emailHtml / emailContent, as the parts the template interpolates.
EmailHtml(v, x) ==
    [ title |-> x["Meeting Name"],
      summary |-> SummaryHtml(v, x["Summary"]),
      actionItems |-> ListItems(v, x["Action Items"]),
      keyQuestions |-> ListItems(v, x["Key Questions"]) ]

\* What the loop body builds before the send: meetingName, summary, actionItems,
\* keyQuestions (they make up the subject and the text part) and the html.
Message(v, p) ==
    LET x == Extract(v, p)
    IN  [fields |-> x, html |-> EmailHtml(v, x)]

\* The pages a query of the handler runs may hand out: one with every property
\* filled, one whose properties are of another type (no title / rich_text key).
PageOf(p) == [f \in Fields |-> p]
MainPages == {PageOf(Content(<<"a">>)), PageOf(NoList)}

\* The pages drawn for the rendering runs: every shape of every property, every
\* Action Items text up to MaxLen, a few texts for the other properties.
FieldValues(texts) == Shapes \cup {Content(t) : t \in texts}
TitleTexts == {<< >>, <<"a">>}
SummaryTexts == {<< >>, <<"a", NL, "a">>}
KeyQuestionsTexts == {<< >>, <<" ", "a">>, <<"a", NL, NL>>}
RenderPages ==
    {[f \in Fields |->
        CASE f = "Meeting Name" -> a
          [] f = "Summary" -> b
          [] f = "Action Items" -> c
          [] OTHER -> d] :
       a \in FieldValues(TitleTexts), b \in FieldValues(SummaryTexts),
       c \in FieldValues(TextsUpTo(MaxLen)), d \in FieldValues(KeyQuestionsTexts)}

\* ------------------------------------------------------------------- state
VARIABLES
    variant,     \* the handler that is deployed
    sent,        \* Notion: the "Sent" checkbox of every page
    delivered,   \* mail provider: whether a message for the page was ever accepted
    pc,          \* per invocation: the await it is suspended at
    newPages,    \* per invocation: response.results
    idx,         \* per invocation: position of the for-of loop in newPages
    page,        \* per invocation: properties of the page being rendered
    message,     \* per invocation: the extracted strings and the e-mail being sent
    flaskResp,   \* per invocation: how the Flask call of the current page ended
    calls,       \* per invocation: the remote calls that have returned, in order
    console,     \* per invocation: the console.error lines, in order
    responses    \* per invocation: the responses returned to the trigger

vars == <<variant, sent, delivered, pc, newPages, idx, page, message,
          flaskResp, calls, console, responses>>

\* No page is being rendered, no message is being sent.
NoPage == PageOf(<<"none">>)
NoMessage ==
    [fields |-> [f \in Fields |-> << >>],
     html |-> [title |-> << >>, summary |-> << >>, actionItems |-> << >>,
               keyQuestions |-> << >>]]

\* notion.databases.query with filter Sent == false: the matching pages, in
\* the order of the store.
RECURSIVE Unsent(_, _)
Unsent(flags, r) ==
    IF r > NumRecords THEN << >>
    ELSE (IF flags[r] THEN << >> ELSE <<r>>) \o Unsent(flags, r + 1)

\* QueryResults with the filter inverted (checkbox equals true).
QueryResultsSent(flags) == Unsent([r \in Records |-> ~flags[r]], 1)

\* QueryResults of a query without the Sent filter: every page of the store.
QueryResultsAll(flags) == Unsent([r \in Records |-> FALSE], 1)

QueryResults(flags) == Unsent(flags, 1)

Call(op, r, ok) == [op |-> op, rec |-> r, ok |-> ok]

\* Cur of a loop that walks the fetched pages from the last to the first.
CurBackwards(i) == newPages[i][Len(newPages[i]) + 1 - idx[i]]

Cur(i) == newPages[i][idx[i]]

\* PerRecordCatch of handlers that all wrap each call of the loop body in its
\* own try/catch.
PerRecordCatchEverywhere == TRUE

PerRecordCatch == variant = "latest"
CallsFlask == variant \in {"mailtrapFirst", "latest"}

\* SuccessResponse counting one page too many.
SuccessResponseOffByOne(v, n) ==
    [status |-> 200, keys |-> {"message"},
     count |-> IF v = "netlify" THEN -1 ELSE n + 1, details |-> "none"]

\* The 200 response. exports.handler of send-email.js answers with a fixed
\* message; the others interpolate newPages.length (count).
SuccessResponse(v, n) ==
    [status |-> 200, keys |-> {"message"},
     count |-> IF v = "netlify" THEN -1 ELSE n, details |-> "none"]

\* The 500 response of the outer catch; details stands for error.message.
ErrorResponse(v, cause) ==
    [status |-> 500,
     keys |-> IF v = "netlify" THEN {"error"} ELSE {"error", "details"},
     count |-> -1, details |-> cause]

Init ==
    /\ variant \in Variants
    /\ sent = [r \in Records |-> FALSE]
    /\ delivered = [r \in Records |-> FALSE]
    /\ pc = [i \in Invs |-> "idle"]
    /\ newPages = [i \in Invs |-> << >>]
    /\ idx = [i \in Invs |-> 1]
    /\ page = [i \in Invs |-> NoPage]
    /\ message = [i \in Invs |-> NoMessage]
    /\ flaskResp = [i \in Invs |-> "none"]
    /\ calls = [i \in Invs |-> << >>]
    /\ console = [i \in Invs |-> << >>]
    /\ responses = [i \in Invs |-> << >>]

\* ------------------------------------------------------------ control flow
\* The outer catch: log (not in exports.handler of send-email.js), answer 500.
Catch(i, cause) ==
    /\ console' = [console EXCEPT ![i] =
                     IF variant = "netlify" THEN @ ELSE Append(@, <<"functionError", cause>>)]
    /\ responses' = [responses EXCEPT ![i] = Append(@, ErrorResponse(variant, cause))]
    /\ pc' = [pc EXCEPT ![i] = "done"]
    /\ flaskResp' = [flaskResp EXCEPT ![i] = "none"]
    /\ message' = [message EXCEPT ![i] = NoMessage]

\* End of one loop iteration (or continue): on to the next page.
NextPage(i) ==
    /\ idx' = [idx EXCEPT ![i] = @ + 1]
    /\ pc' = [pc EXCEPT ![i] = "loop"]
    /\ flaskResp' = [flaskResp EXCEPT ![i] = "none"]

\* The trigger starts the handler; it suspends at notion.databases.query.
Invoke(i) ==
    /\ pc[i] \in {"idle", "done"}
    /\ pc' = [pc EXCEPT ![i] = "query"]
    /\ newPages' = [newPages EXCEPT ![i] = << >>]
    /\ idx' = [idx EXCEPT ![i] = 1]
    /\ page' = [page EXCEPT ![i] = NoPage]
    /\ message' = [message EXCEPT ![i] = NoMessage]
    /\ flaskResp' = [flaskResp EXCEPT ![i] = "none"]
    /\ calls' = [calls EXCEPT ![i] = << >>]
    /\ console' = [console EXCEPT ![i] = << >>]
    /\ responses' = [responses EXCEPT ![i] = << >>]
    /\ UNCHANGED <<variant, sent, delivered>>

QueryOK(i) ==
    /\ pc[i] = "query"
    /\ newPages' = [newPages EXCEPT ![i] = QueryResults(sent)]
    /\ calls' = [calls EXCEPT ![i] = Append(@, Call("query", 0, TRUE))]
    /\ pc' = [pc EXCEPT ![i] = "loop"]
    /\ UNCHANGED <<variant, sent, delivered, idx, page, message, flaskResp,
                   console, responses>>

QueryFail(i) ==
    /\ pc[i] = "query"
    /\ calls' = [calls EXCEPT ![i] = Append(@, Call("query", 0, FALSE))]
    /\ Catch(i, "query")
    /\ UNCHANGED <<variant, sent, delivered, newPages, idx, page>>

\* The loop is over: the success response.
ReturnSuccess(i) ==
    /\ pc[i] = "loop"
    /\ idx[i] > Len(newPages[i])
    /\ responses' = [responses EXCEPT ![i] =
                       Append(@, SuccessResponse(variant, Len(newPages[i])))]
    /\ pc' = [pc EXCEPT ![i] = "done"]
    /\ UNCHANGED <<variant, sent, delivered, newPages, idx, page, message,
                   flaskResp, calls, console>>

\* Loop body up to the await of the send: extraction, rendering, the call.
ExtractFrom(i, Pages) ==
    /\ pc[i] = "loop"
    /\ idx[i] <= Len(newPages[i])
    /\ \E p \in Pages :
         /\ ~ExtractThrows(variant, p)
         /\ page' = [page EXCEPT ![i] = p]
         /\ message' = [message EXCEPT ![i] = Message(variant, p)]
    /\ pc' = [pc EXCEPT ![i] = "send"]
    /\ UNCHANGED <<variant, sent, delivered, newPages, idx, flaskResp, calls,
                   console, responses>>

\* Extraction raises a TypeError: the outer catch.
ExtractThrowFrom(i, Pages) ==
    /\ pc[i] = "loop"
    /\ idx[i] <= Len(newPages[i])
    /\ \E p \in Pages :
         /\ ExtractThrows(variant, p)
         /\ page' = [page EXCEPT ![i] = p]
    /\ Catch(i, "TypeError")
    /\ UNCHANGED <<variant, sent, delivered, newPages, idx, calls>>

Extraction(i) == ExtractFrom(i, MainPages)
ExtractionThrows(i) == ExtractThrowFrom(i, MainPages)

\* SendOK of a handler that reads the Sent checkbox again before the send and
\* skips a page another invocation has marked meanwhile.
SendOKUnlessSent(i) ==
    /\ pc[i] = "send"
    /\ page' = [page EXCEPT ![i] = NoPage]
    /\ message' = [message EXCEPT ![i] = NoMessage]
    /\ IF sent[Cur(i)]
       THEN /\ NextPage(i)
            /\ UNCHANGED <<calls, delivered>>
       ELSE /\ calls' = [calls EXCEPT ![i] = Append(@, Call("send", Cur(i), TRUE))]
            /\ delivered' = [delivered EXCEPT ![Cur(i)] = TRUE]
            /\ pc' = [pc EXCEPT ![i] = IF CallsFlask THEN "flask" ELSE "update"]
            /\ UNCHANGED <<idx, flaskResp>>
    /\ UNCHANGED <<variant, sent, newPages, console, responses>>

SendOK(i) ==
    /\ pc[i] = "send"
    /\ calls' = [calls EXCEPT ![i] = Append(@, Call("send", Cur(i), TRUE))]
    /\ delivered' = [delivered EXCEPT ![Cur(i)] = TRUE]
    /\ pc' = [pc EXCEPT ![i] = IF CallsFlask THEN "flask" ELSE "update"]
    /\ page' = [page EXCEPT ![i] = NoPage]
    /\ message' = [message EXCEPT ![i] = NoMessage]
    /\ UNCHANGED <<variant, sent, newPages, idx, flaskResp, console, responses>>

\* SendFail without the continue of the catch block: the failed page goes on
\* to the Flask call (or the update) like a delivered one.
SendFailStillUpdates(i) ==
    /\ pc[i] = "send"
    /\ calls' = [calls EXCEPT ![i] = Append(@, Call("send", Cur(i), FALSE))]
    /\ console' = [console EXCEPT ![i] = Append(@, <<"emailFailed", Cur(i)>>)]
    /\ pc' = [pc EXCEPT ![i] = IF CallsFlask THEN "flask" ELSE "update"]
    /\ page' = [page EXCEPT ![i] = NoPage]
    /\ message' = [message EXCEPT ![i] = NoMessage]
    /\ UNCHANGED <<variant, sent, delivered, newPages, idx, flaskResp, responses>>

\* SendFail whose catch block logs nothing.
SendFailSilent(i) ==
    /\ pc[i] = "send"
    /\ calls' = [calls EXCEPT ![i] = Append(@, Call("send", Cur(i), FALSE))]
    /\ page' = [page EXCEPT ![i] = NoPage]
    /\ IF PerRecordCatch
       THEN /\ NextPage(i)
            /\ message' = [message EXCEPT ![i] = NoMessage]
            /\ UNCHANGED <<console, responses>>
       ELSE /\ Catch(i, "send")
            /\ UNCHANGED idx
    /\ UNCHANGED <<variant, sent, delivered, newPages>>

\* SendFail whose catch block tries the send of the same page once more.
SendFailRetriesOnce(i) ==
    /\ pc[i] = "send"
    /\ calls' = [calls EXCEPT ![i] = Append(@, Call("send", Cur(i), FALSE))]
    /\ IF PerRecordCatch
       THEN /\ console' = [console EXCEPT ![i] = Append(@, <<"emailFailed", Cur(i)>>)]
            /\ IF Call("send", Cur(i), FALSE) \in {calls[i][k] : k \in 1..Len(calls[i])}
               THEN /\ NextPage(i)
                    /\ page' = [page EXCEPT ![i] = NoPage]
                    /\ message' = [message EXCEPT ![i] = NoMessage]
               ELSE UNCHANGED <<pc, idx, flaskResp, page, message>>
            /\ UNCHANGED responses
       ELSE /\ Catch(i, "send")
            /\ page' = [page EXCEPT ![i] = NoPage]
            /\ UNCHANGED idx
    /\ UNCHANGED <<variant, sent, delivered, newPages>>

SendFail(i) ==
    /\ pc[i] = "send"
    /\ calls' = [calls EXCEPT ![i] = Append(@, Call("send", Cur(i), FALSE))]
    /\ page' = [page EXCEPT ![i] = NoPage]
    /\ IF PerRecordCatch
       THEN /\ console' = [console EXCEPT ![i] = Append(@, <<"emailFailed", Cur(i)>>)]
            /\ NextPage(i)
            /\ message' = [message EXCEPT ![i] = NoMessage]
            /\ UNCHANGED responses
       ELSE /\ Catch(i, "send")
            /\ UNCHANGED idx
    /\ UNCHANGED <<variant, sent, delivered, newPages>>

\* ----------------------------------------------------------- the Flask call
\* The latest variant goes through fetchWithTimeout and checks flaskResp.ok,
\* then reads the body; the first variant awaits a bare fetch and ignores the
\* response.
FlaskEnds(i, ok, how) ==
    /\ calls' = [calls EXCEPT ![i] = Append(@, Call("flask", Cur(i), ok))]
    /\ pc' = [pc EXCEPT ![i] = "update"]
    /\ flaskResp' = [flaskResp EXCEPT ![i] = how]
    /\ console' = [console EXCEPT ![i] =
                     IF PerRecordCatch /\ ~ok THEN Append(@, <<"flaskFailed", Cur(i)>>) ELSE @]
    /\ UNCHANGED <<variant, sent, delivered, newPages, idx, page, message, responses>>

\* fetch resolves with a 2xx status.
FlaskOk(i) ==
    /\ pc[i] = "flask"
    /\ IF PerRecordCatch
       THEN /\ pc' = [pc EXCEPT ![i] = "flaskBody"]
            /\ flaskResp' = [flaskResp EXCEPT ![i] = "ok"]
            /\ UNCHANGED <<variant, sent, delivered, newPages, idx, page, message,
                           calls, console, responses>>
       ELSE FlaskEnds(i, TRUE, "ok")

\* FlaskStatus whose throw is not caught per page: the outer catch.
FlaskStatusAborts(i) ==
    /\ pc[i] = "flask"
    /\ IF PerRecordCatch
       THEN /\ calls' = [calls EXCEPT ![i] = Append(@, Call("flask", Cur(i), FALSE))]
            /\ Catch(i, "flask")
            /\ UNCHANGED <<variant, sent, delivered, newPages, idx, page>>
       ELSE FlaskEnds(i, TRUE, "status")

\* fetch resolves with another status: the latest variant throws on !flaskResp.ok.
FlaskStatus(i) ==
    /\ pc[i] = "flask"
    /\ FlaskEnds(i, ~PerRecordCatch, "status")

\* fetch rejects (network error).
FlaskReject(i) ==
    /\ pc[i] = "flask"
    /\ IF PerRecordCatch
       THEN FlaskEnds(i, FALSE, "reject")
       ELSE /\ calls' = [calls EXCEPT ![i] = Append(@, Call("flask", Cur(i), FALSE))]
            /\ Catch(i, "flask")
            /\ UNCHANGED <<variant, sent, delivered, newPages, idx, page>>

\* fetchWithTimeout: the timer fires before fetch resolves, controller.abort().
FlaskTimeout(i) ==
    /\ pc[i] = "flask"
    /\ PerRecordCatch
    /\ FlaskEnds(i, FALSE, "timeout")

\* await flaskResp.json() resolves.
FlaskJsonOk(i) ==
    /\ pc[i] = "flaskBody"
    /\ FlaskEnds(i, TRUE, "ok")

\* await flaskResp.json() rejects (the body is no JSON, the connection drops).
FlaskJsonFail(i) ==
    /\ pc[i] = "flaskBody"
    /\ FlaskEnds(i, FALSE, "badJson")

\* ------------------------------------------------------ notion.pages.update
\* UpdateOK with the page_id of the first fetched page.
UpdateOKFirstPage(i) ==
    /\ pc[i] = "update"
    /\ sent' = [sent EXCEPT ![newPages[i][1]] = TRUE]
    /\ calls' = [calls EXCEPT ![i] = Append(@, Call("update", Cur(i), TRUE))]
    /\ NextPage(i)
    /\ UNCHANGED <<variant, delivered, newPages, page, message, console, responses>>

\* UpdateOK that writes the negation of the checkbox it fetched with the page
\* list, read again at the update, instead of the constant true.
UpdateOKToggles(i) ==
    /\ pc[i] = "update"
    /\ sent' = [sent EXCEPT ![Cur(i)] = ~sent[Cur(i)]]
    /\ calls' = [calls EXCEPT ![i] = Append(@, Call("update", Cur(i), TRUE))]
    /\ NextPage(i)
    /\ UNCHANGED <<variant, delivered, newPages, page, message, console, responses>>

UpdateOK(i) ==
    /\ pc[i] = "update"
    /\ sent' = [sent EXCEPT ![Cur(i)] = TRUE]
    /\ calls' = [calls EXCEPT ![i] = Append(@, Call("update", Cur(i), TRUE))]
    /\ NextPage(i)
    /\ UNCHANGED <<variant, delivered, newPages, page, message, console, responses>>

\* UpdateFail without the try/catch around notion.pages.update.
UpdateFailAborts(i) ==
    /\ pc[i] = "update"
    /\ calls' = [calls EXCEPT ![i] = Append(@, Call("update", Cur(i), FALSE))]
    /\ Catch(i, "update")
    /\ UNCHANGED <<variant, sent, delivered, newPages, idx, page>>

UpdateFail(i) ==
    /\ pc[i] = "update"
    /\ calls' = [calls EXCEPT ![i] = Append(@, Call("update", Cur(i), FALSE))]
    /\ IF PerRecordCatch
       THEN /\ console' = [console EXCEPT ![i] = Append(@, <<"updateFailed", Cur(i)>>)]
            /\ NextPage(i)
            /\ UNCHANGED <<message, responses>>
       ELSE /\ Catch(i, "update")
            /\ UNCHANGED idx
    /\ UNCHANGED <<variant, sent, delivered, newPages, page>>

\* ------------------------------------------------------------ specifications
Step(i) ==
    \/ Invoke(i)
    \/ QueryOK(i)
    \/ QueryFail(i)
    \/ ReturnSuccess(i)
    \/ Extraction(i)
    \/ ExtractionThrows(i)
    \/ SendOK(i)
    \/ SendFail(i)
    \/ FlaskOk(i)
    \/ FlaskStatus(i)
    \/ FlaskReject(i)
    \/ FlaskTimeout(i)
    \/ FlaskJsonOk(i)
    \/ FlaskJsonFail(i)
    \/ UpdateOK(i)
    \/ UpdateFail(i)

\* Invocations may overlap.
Next == \E i \in Invs : Step(i)

Spec == Init /\ [][Next]_vars

\* One invocation at a time: the trigger fires again only after the response.
SeqNext == Step(First)

SeqSpec == Init /\ [][SeqNext]_vars

\* Rendering runs: one pending page (the first of the store), whose properties
\* are drawn from RenderPages; invocations one at a time.
RenderInit ==
    /\ variant \in Variants
    /\ sent = [r \in Records |-> r # 1]
    /\ delivered = [r \in Records |-> r # 1]
    /\ pc = [i \in Invs |-> "idle"]
    /\ newPages = [i \in Invs |-> << >>]
    /\ idx = [i \in Invs |-> 1]
    /\ page = [i \in Invs |-> NoPage]
    /\ message = [i \in Invs |-> NoMessage]
    /\ flaskResp = [i \in Invs |-> "none"]
    /\ calls = [i \in Invs |-> << >>]
    /\ console = [i \in Invs |-> << >>]
    /\ responses = [i \in Invs |-> << >>]

RenderNext ==
    \/ Invoke(First)
    \/ QueryOK(First)
    \/ QueryFail(First)
    \/ ReturnSuccess(First)
    \/ ExtractFrom(First, RenderPages)
    \/ ExtractThrowFrom(First, RenderPages)
    \/ SendOK(First)
    \/ SendFail(First)
    \/ FlaskOk(First)
    \/ FlaskStatus(First)
    \/ FlaskReject(First)
    \/ FlaskTimeout(First)
    \/ FlaskJsonOk(First)
    \/ FlaskJsonFail(First)
    \/ UpdateOK(First)
    \/ UpdateFail(First)

RenderSpec == RenderInit /\ [][RenderNext]_vars

\* ------------------------------------------------------ reading the state
Latest == variant = "latest"
Done(i) == pc[i] = "done"
Entries(i) == {calls[i][k] : k \in 1..Len(calls[i])}
Attempted(i, op, r) ==
    \E k \in 1..Len(calls[i]) : calls[i][k].op = op /\ calls[i][k].rec = r
Succeeded(i, op, r) ==
    \E k \in 1..Len(calls[i]) :
        calls[i][k].op = op /\ calls[i][k].rec = r /\ calls[i][k].ok
Failed(i, op, r) ==
    \E k \in 1..Len(calls[i]) :
        calls[i][k].op = op /\ calls[i][k].rec = r /\ ~calls[i][k].ok
Fetched(i) == {newPages[i][k] : k \in 1..Len(newPages[i])}
Logged(i, what, r) == \E k \in 1..Len(console[i]) : console[i][k] = <<what, r>>
Position(i, r) == CHOOSE k \in 1..Len(newPages[i]) : newPages[i][k] = r
\* The pages whose loop iteration is over.
Finished(i) == {newPages[i][k] : k \in 1..(idx[i] - 1)}
\* The entry a step of invocation i has just added to calls[i].
Added(i, e) == calls'[i] = Append(calls[i], e)

\* ------------------------------------------------------------------- claims
\* C1: in every variant, under overlapping invocations and any failures, the
\* Sent checkbox of a page is set only by an update call that follows a
\* successful send of that page in the same invocation; no page is marked
\* Sent without a delivery.
C1_NoFalseAcknowledgement ==
    /\ [](\A r \in Records : sent[r] => delivered[r])
    /\ [](\A i \in Invs : \A r \in Records :
            Attempted(i, "update", r) => Succeeded(i, "send", r))
    /\ [][\A r \in Records : sent'[r] # sent[r] =>
            /\ sent'[r]
            /\ \E i \in Invs : Added(i, Call("update", r, TRUE)) /\ Succeeded(i, "send", r)]_vars

C1_Witness ==
    \E i \in Invs : \E r \in Records :
        /\ variant # "latest"
        /\ sent[r] /\ Succeeded(i, "update", r)
        /\ \E j \in Invs \ {i} : pc[j] \notin {"idle", "done"}

\* C2: latest variant, query succeeded: no failure of send, Flask call or
\* update ends the run; every page before the loop position has had its send,
\* and the run is over only when the loop has passed the last page.
C2_FailuresIsolated ==
    \A i \in Invs :
        (Latest /\ Succeeded(i, "query", 0)) =>
            /\ \A r \in Finished(i) : Attempted(i, "send", r)
            /\ Done(i) => idx[i] > Len(newPages[i])
            /\ Done(i) => \A r \in Fetched(i) : Attempted(i, "send", r)

C2_Witness ==
    \E i \in Invs : \E r, q \in Records :
        /\ Latest /\ Done(i)
        /\ r \in Fetched(i) /\ q \in Fetched(i) /\ Position(i, r) < Position(i, q)
        /\ Failed(i, "flask", r) /\ Failed(i, "update", r)
        /\ Attempted(i, "send", q)

\* C3: latest variant: once the Flask call of a delivered page has ended, in
\* whatever way, the handler is at the update call of that page; every
\* delivered page whose iteration is over had its update attempted, and a page
\* whose update succeeded is marked Sent.
C3_NotifyNeverBlocksAck ==
    \A i \in Invs :
        Latest =>
            /\ (pc[i] \in {"flask", "flaskBody", "update"} /\ flaskResp[i] \notin {"none", "ok"})
                   => pc[i] = "update"
            /\ (pc[i] \notin {"idle", "query", "loop", "send", "done"}
                  /\ Attempted(i, "flask", Cur(i))) => pc[i] = "update"
            /\ \A r \in Finished(i) :
                   Succeeded(i, "send", r) =>
                       /\ Attempted(i, "flask", r)
                       /\ Attempted(i, "update", r)
            /\ \A r \in Records : Succeeded(i, "update", r) => sent[r]
            /\ Done(i) => \A r \in Fetched(i) :
                   Succeeded(i, "send", r) => Attempted(i, "update", r)

C3_Witness ==
    \E i \in Invs : \E r \in Records :
        /\ Latest
        /\ Succeeded(i, "send", r) /\ Failed(i, "flask", r)
        /\ Succeeded(i, "update", r) /\ sent[r]
        /\ pc[i] = "update" /\ flaskResp[i] = "timeout"

\* C4 as stated: latest variant, at the end of an invocation a fetched page is
\* marked Sent if and only if its e-mail was delivered in that invocation.
C4_SentIffDelivered ==
    (Latest /\ Done(First) /\ Succeeded(First, "query", 0)) =>
        \A r \in Fetched(First) : sent[r] <=> Succeeded(First, "send", r)

\* C4 amended: latest variant, invocations one at a time: at the end of an
\* invocation a fetched page is marked Sent if and only if its e-mail was
\* delivered and its update call succeeded in that invocation; a delivered
\* page whose update failed is left unmarked.
C4_SentIffDeliveredAndAcked ==
    (Latest /\ Done(First) /\ Succeeded(First, "query", 0)) =>
        \A r \in Fetched(First) :
            /\ sent[r] <=> (Succeeded(First, "send", r) /\ Succeeded(First, "update", r))
            /\ sent[r] => Succeeded(First, "send", r)
            /\ (Succeeded(First, "send", r) /\ Failed(First, "update", r)) => ~sent[r]

C4_Witness ==
    \E r, q \in Records :
        /\ Latest /\ Done(First)
        /\ Succeeded(First, "send", r) /\ Failed(First, "update", r) /\ ~sent[r]
        /\ Succeeded(First, "send", q) /\ Succeeded(First, "update", q) /\ sent[q]

\* C5: latest variant, query succeeded: at the end of the invocation every
\* fetched page had its send attempted and is either still unmarked with an
\* e-mail failure or an update failure logged for it, or marked Sent with a
\* delivery having happened.
C5_EveryFetchedAccountedFor ==
    \A i \in Invs :
        (Latest /\ Done(i) /\ Succeeded(i, "query", 0)) =>
            \A r \in Fetched(i) :
                /\ Attempted(i, "send", r)
                /\ \/ ~sent[r] /\ (Logged(i, "emailFailed", r) \/ Logged(i, "updateFailed", r))
                   \/ sent[r] /\ delivered[r]

C5_Witness ==
    \E i \in Invs : \E r, q \in Records :
        /\ Latest /\ Done(i) /\ {r, q} \subseteq Fetched(i)
        /\ ~sent[r] /\ Logged(i, "emailFailed", r)
        /\ sent[q] /\ Succeeded(i, "send", q)

\* C6: latest variant: an invocation that is over has returned exactly one
\* response; it is the 500 response { error, details } when the query failed
\* and the 200 response { message } in every other run; an invocation that is
\* not over has returned none.
C6_ErrorOnlyOnFetchFailure ==
    \A i \in Invs :
        Latest =>
            /\ ~Done(i) => responses[i] = << >>
            /\ Done(i) =>
                 /\ Len(responses[i]) = 1
                 /\ responses[i][1].status \in {200, 500}
                 /\ responses[i][1].status = 500 <=> Failed(i, "query", 0)
                 /\ responses[i][1].status = 500 => responses[i][1].keys = {"error", "details"}
                 /\ responses[i][1].status = 200 => responses[i][1].keys = {"message"}

C6_Witness ==
    \E i \in Invs : \E r, q \in Records :
        /\ Latest /\ Done(i)
        /\ Failed(i, "send", r) /\ Failed(i, "flask", q) /\ Failed(i, "update", q)
        /\ responses[i][1].status = 200

\* The one number of the success message, "Successfully processed N meeting
\* summaries", is the only count the response carries: it is what the caller
\* can read as the records seen and as the records that succeeded.
ReportedTotal(resp) == resp.count
ReportedSucceeded(resp) == resp.count

\* C7: latest variant: the success response reports total = pages fetched and
\* succeeded = pages whose update succeeded in this invocation; a page whose
\* send failed is unchanged in the store.
C7_SummaryCounts ==
    (Latest /\ Done(First) /\ Succeeded(First, "query", 0)) =>
        /\ ReportedTotal(responses[First][1]) = Len(newPages[First])
        /\ ReportedSucceeded(responses[First][1]) =
               Cardinality({r \in Records : Succeeded(First, "update", r)})
        /\ \A r \in Records : Failed(First, "send", r) => ~sent[r]

\* C8: a query that returns no page: the invocation makes no call but the
\* query, changes no checkbox, and answers 200 with (where the message has a
\* count) the count 0; so does every later invocation that finds no page.
C8_EmptyFetchDoesNothing ==
    /\ [](\A i \in Invs :
            (Succeeded(i, "query", 0) /\ newPages[i] = << >>) =>
                /\ calls[i] = <<Call("query", 0, TRUE)>>
                /\ console[i] = << >>
                /\ pc[i] \in {"loop", "done"}
                /\ Done(i) => /\ responses[i] = <<SuccessResponse(variant, 0)>>
                              /\ responses[i][1].status = 200
                              /\ variant # "netlify" => responses[i][1].count = 0)
    /\ [][\A i \in Invs :
            (pc[i] = "query" \/ (pc[i] = "loop" /\ newPages[i] = << >>)) /\ pc'[i] # pc[i]
                => sent' = sent /\ delivered' = delivered]_vars

C8_Witness ==
    \E i \in Invs :
        /\ Latest /\ Done(i) /\ Succeeded(i, "query", 0) /\ newPages[i] = << >>
        /\ \A r \in Records : sent[r]
        /\ responses[i][1].count = 0

\* Invocations one at a time, under the fairness C9 assumes: the handler keeps
\* being invoked and every remote call returns (weak fairness of its steps);
\* the query, and for each page the send and the update, succeed eventually
\* when tried again and again (strong fairness of the successful outcomes).
FairSeqSpec ==
    /\ SeqSpec
    /\ WF_vars(Step(First))
    /\ SF_vars(QueryOK(First))
    /\ \A r \in Records : SF_vars(SendOK(First) /\ Cur(First) = r)
    /\ \A r \in Records : SF_vars(UpdateOK(First) /\ Cur(First) = r)

Missing(p, f) == p[f] \in {Absent, EmptyList, Content(<< >>)}
ThrewTypeError(i) ==
    \E k \in 1..Len(responses[i]) : responses[i][k].details = "TypeError"
\* The default strings of section 4.1 of the specification.
SpecDefault(f) ==
    CASE f = "Meeting Name" -> NoTitle
      [] f = "Summary" -> NoSummary
      [] f = "Action Items" -> NoActionItems
      [] OTHER -> NoKeyQuestions

\* C10 as stated: in every variant, whatever properties of a page are absent
\* or empty, extraction and rendering raise no error, every absent or empty
\* property is replaced by its default string, the send is attempted, and with an
\* empty Action Items property the rendered Action Items list is empty.
C10_DefaultsAndEmptyList ==
    /\ ~ThrewTypeError(First)
    /\ page[First] # NoPage => pc[First] = "send"
    /\ pc[First] = "send" =>
         /\ \A f \in Fields :
              Missing(page[First], f) => message[First].fields[f] = SpecDefault(f)
         /\ Missing(page[First], "Action Items") => message[First].html.actionItems = << >>

\* C10 amended: in both variants of index.js, whatever properties are absent or
\* empty, extraction and rendering raise no error, every absent or empty
\* property is replaced by its default string and the send is attempted; the
\* rendered Action Items (Key Questions) list of a page with an empty Action
\* Items (Key Questions) property is not empty: it has exactly one item, the
\* default string. The Railway variant does the same for absent and empty
\* properties and throws only for a property without a title / rich_text
\* list. exports.handler of send-email.js replaces an empty list or string by
\* its own defaults ("No title", "No summary", "No action items", "No key
\* questions") and throws, answering 500 without a send, when a property is
\* missing from the page.
C10_DefaultsFillTheList ==
    LET p == page[First]
        m == message[First]
        own(f) == IF variant = "netlify"
                  THEN CASE f = "Meeting Name" -> NoTitleNetlify
                         [] f = "Summary" -> NoSummaryNetlify
                         [] f = "Action Items" -> NoActionItemsNetlify
                         [] OTHER -> NoKeyQuestionsNetlify
                  ELSE SpecDefault(f)
    IN  /\ p # NoPage =>
              \/ pc[First] = "send" /\ m # NoMessage
              \/ Done(First) /\ ThrewTypeError(First)
        /\ ThrewTypeError(First) =>
              /\ variant \in {"netlify", "railway"}
              /\ p # NoPage /\ ~Attempted(First, "send", 1)
              /\ variant = "railway" => \E f \in Fields : p[f] = NoList
              /\ variant = "netlify" => \E f \in Fields : p[f] \in {Absent, NoList, NoText}
        /\ (variant = "netlify" /\ pc[First] = "send") =>
              \A f \in Fields : p[f] \notin {Absent, NoList, NoText}
        /\ pc[First] = "send" =>
              /\ \A f \in Fields :
                   /\ Missing(p, f) => m.fields[f] = own(f)
                   /\ (p[f][1] = "content" /\ p[f] # Content(<< >>)) => m.fields[f] = p[f][2]
              /\ m.html.title = m.fields["Meeting Name"]
              /\ Missing(p, "Action Items") => m.html.actionItems = <<own("Action Items")>>
              /\ Missing(p, "Key Questions") => m.html.keyQuestions = <<own("Key Questions")>>

C10_Witness ==
    /\ Latest /\ pc[First] = "send"
    /\ page[First]["Meeting Name"] = Absent
    /\ page[First]["Summary"] = EmptyList
    /\ page[First]["Action Items"] = Content(<< >>)
    /\ page[First]["Key Questions"] = Absent
    /\ message[First].fields["Meeting Name"] = NoTitle
    /\ message[First].html.actionItems = <<NoActionItems>>

\* C11: latest variant: a page whose send failed gets no Flask call and no
\* update in this invocation; the call that follows the failed send is the
\* send of the next fetched page, or there is none and the handler is at the
\* loop head, at the send of the next page, or has returned the success
\* response after the last page.
C11_FailedDeliverySkipsRecord ==
    \A i \in Invs :
        Latest =>
            \A k \in 1..Len(calls[i]) :
                 (calls[i][k].op = "send" /\ ~calls[i][k].ok) =>
                     LET n == Position(i, calls[i][k].rec) + 1 IN
                     /\ \A l \in 1..Len(calls[i]) :
                          calls[i][l].rec = calls[i][k].rec => l = k
                     /\ k < Len(calls[i]) =>
                          /\ n <= Len(newPages[i])
                          /\ calls[i][k + 1].op = "send"
                          /\ calls[i][k + 1].rec = newPages[i][n]
                     /\ k = Len(calls[i]) =>
                          /\ idx[i] = n
                          /\ pc[i] \in {"loop", "send", "done"}
                          /\ Done(i) =>
                               /\ n > Len(newPages[i])
                               /\ responses[i] =
                                    <<SuccessResponse(variant, Len(newPages[i]))>>

C11_Witness ==
    \E i \in Invs : \E r \in Records :
        /\ Latest /\ pc[i] = "send"
        /\ calls[i][Len(calls[i])] = Call("send", r, FALSE)
        /\ Cur(i) = newPages[i][Position(i, r) + 1]

\* The number of calls of kind op for page r that have returned in invocation i.
Count(i, op, r) ==
    Cardinality({k \in 1..Len(calls[i]) : calls[i][k].op = op /\ calls[i][k].rec = r})

\* C12: latest variant, any number of invocations one after the other (the
\* fetch, the loop position and the call log of an invocation are touched by
\* its own steps only): within one invocation every fetched page has at most
\* one send, one Flask call and one update, failed or not; a call in flight for
\* a page is the first of its kind for that page, and no call is made for a
\* page outside the fetch.
C12_AtMostOneAttemptPerStep ==
    \A i \in Invs :
        Latest =>
            /\ \A r \in Records : \A op \in {"send", "flask", "update"} :
                 /\ Count(i, op, r) <= 1
                 /\ Count(i, op, r) = 1 => r \in Fetched(i)
            /\ pc[i] = "send" => Count(i, "send", Cur(i)) = 0
            /\ pc[i] \in {"flask", "flaskBody"} => Count(i, "flask", Cur(i)) = 0
            /\ pc[i] = "update" => Count(i, "update", Cur(i)) = 0

C12_Witness ==
    \E i \in Invs : \E r, q \in Records :
        /\ Latest /\ Done(i) /\ r # q
        /\ Failed(i, "send", r) /\ Count(i, "send", r) = 1
        /\ Failed(i, "flask", q) /\ Count(i, "flask", q) = 1
        /\ Failed(i, "update", q) /\ Count(i, "update", q) = 1

\* The place of a call in the loop body: send, then Flask call, then update.
Rank(op) == CASE op = "send" -> 1 [] op = "flask" -> 2 [] op = "update" -> 3 [] OTHER -> 0
\* The call the handler is awaiting, as a rank (4: none for the current page).
Awaiting(i) ==
    CASE pc[i] = "send" -> 1
      [] pc[i] \in {"flask", "flaskBody"} -> 2
      [] pc[i] = "update" -> 3
      [] OTHER -> 4

\* C13: in every variant, invocations one after the other (an invocation's
\* loop is touched by its own steps only): the pages are handled one at a time in the order
\* of the fetch; for each page the calls come in the order send, Flask call,
\* update; every call of a page has returned before a call of the next page
\* starts, and the call in flight belongs to the page of the loop position.
C13_OneRecordAtATimeInOrder ==
    \A i \in Invs :
        LET n == Len(calls[i])
            last == calls[i][n]
        IN  /\ \A k \in 1..(Len(newPages[i]) - 1) : newPages[i][k] < newPages[i][k + 1]
            /\ \A k \in 2..n :
                 /\ calls[i][k].op # "query"
                 /\ calls[i][k].rec \in Fetched(i)
            \* each call comes after the one before it: a later page, or the
            \* same page and a later place in the loop body
            /\ \A k \in 2..(n - 1) :
                 \/ Position(i, calls[i][k].rec) < Position(i, calls[i][k + 1].rec)
                 \/ /\ calls[i][k].rec = calls[i][k + 1].rec
                    /\ Rank(calls[i][k].op) < Rank(calls[i][k + 1].op)
            \* and the last call before the loop position and the await there
            /\ n >= 2 =>
                 \/ Position(i, last.rec) < idx[i]
                 \/ /\ Position(i, last.rec) = idx[i]
                    /\ pc[i] # "loop"
                    /\ Rank(last.op) < Awaiting(i)

C13_Witness ==
    \E i \in Invs :
        /\ Latest /\ pc[i] = "flask" /\ idx[i] = 2
        /\ calls[i] = <<Call("query", 0, TRUE), Call("send", newPages[i][1], TRUE),
                        Call("flask", newPages[i][1], TRUE),
                        Call("update", newPages[i][1], TRUE),
                        Call("send", newPages[i][2], TRUE)>>

\* C14: latest variant, two overlapping invocations: nothing stands between a
\* fetched page and its send. A page that both invocations fetched is sent by
\* each of them unless its own send fails, whatever the other has done
\* meanwhile: when both are over and neither send failed, both have delivered
\* it; and when neither update failed either, the page is marked Sent.
C14_OverlapDeliversTwice ==
    (Latest /\ \A i \in Invs : Done(i)) =>
        \A r \in Records :
            (\A i \in Invs : r \in Fetched(i) /\ ~Failed(i, "send", r)) =>
                /\ \A i \in Invs : Succeeded(i, "send", r)
                /\ \A i \in Invs : Attempted(i, "update", r)
                /\ (\A i \in Invs : ~Failed(i, "update", r)) => sent[r]

\* Two successful deliveries of one page, no update failed, the page marked.
C14_Witness ==
    \E r \in Records :
        /\ Latest
        /\ \A i \in Invs :
             /\ Done(i)
             /\ Succeeded(i, "send", r)
             /\ Succeeded(i, "update", r)
             /\ \A q \in Records : ~Failed(i, "update", q)
        /\ sent[r]

\* C15: in every variant, under any interleaving of invocations, the store
\* changes only when an update call succeeds, and then only the Sent flag of
\* the page of that call, a page of the invocation's own fetch, changes, to
\* true; no flag goes back to false, no page leaves the store, and no update is
\* attempted for a page outside the invocation's fetch.
C15_StoreOnlyGainsSentFlags ==
    /\ [][\A r \in Records : sent[r] => sent'[r]]_vars
    /\ [][DOMAIN sent' = DOMAIN sent]_vars
    /\ [][sent' # sent =>
            \E i \in Invs : \E r \in Fetched(i) :
                /\ Added(i, Call("update", r, TRUE))
                /\ sent' = [sent EXCEPT ![r] = TRUE]]_vars
    /\ [](\A i \in Invs : \A r \in Records :
            Attempted(i, "update", r) => r \in Fetched(i))

\* A page marked by one invocation, while the other, which fetched it too,
\* has since made its own update of it.
C15_Witness ==
    \E i \in Invs : \E r \in Records :
        /\ sent[r] /\ Succeeded(i, "update", r)
        /\ \E j \in Invs \ {i} :
             /\ r \in Fetched(j) /\ Attempted(j, "update", r)
             /\ pc[j] = "loop"

\* The steps whose remote call is bounded by a timer of the code: every step
\* but the two ends of await flaskResp.json(), which fetchWithTimeout does not
\* cover (its finally block clears the timer as soon as fetch has resolved
\* with the response headers).
TimedStep(i) ==
    \/ Invoke(i)
    \/ QueryOK(i)
    \/ QueryFail(i)
    \/ ReturnSuccess(i)
    \/ Extraction(i)
    \/ ExtractionThrows(i)
    \/ SendOK(i)
    \/ SendFail(i)
    \/ FlaskOk(i)
    \/ FlaskStatus(i)
    \/ FlaskReject(i)
    \/ FlaskTimeout(i)
    \/ UpdateOK(i)
    \/ UpdateFail(i)

\* Invocations one at a time; every call under a timer eventually returns.
TimedCallsSpec == SeqSpec /\ WF_vars(TimedStep(First))

\* C16: latest variant: a Flask call the timer aborts is a failure of that
\* step only (logged, the update of the same page is next), and the handler
\* never waits forever on the Flask service: from the fetch or the reading of
\* the response body it always comes to the update of the page.
C16_NeverWaitsOnFlask ==
    /\ []((Latest /\ flaskResp[First] = "timeout") =>
            /\ pc[First] = "update"
            /\ Failed(First, "flask", Cur(First))
            /\ Logged(First, "flaskFailed", Cur(First)))
    /\ (Latest /\ pc[First] \in {"flask", "flaskBody"}) ~> (pc[First] = "update")

\* The handler is between the send of page r and the end of its update.
InFlight(i, r) ==
    /\ pc[i] \in {"flask", "flaskBody", "update"}
    /\ idx[i] <= Len(newPages[i])
    /\ Cur(i) = r
\* Page r was delivered, is unmarked, and no update of it is to come.
Redeliverable(r) == delivered[r] /\ ~sent[r] /\ ~InFlight(First, r)

\* C17: latest variant, invocations one at a time: no send is made for a page
\* that is marked Sent; a send of a page that was delivered before happens
\* only to a delivered, unmarked page, and a page becomes one (outside its own
\* iteration) only by a failed update that follows its delivery; so without
\* update failures no page is delivered twice.
C17_RedeliveryOnlyAfterFailedAck ==
    /\ [](Latest => (pc[First] = "send" => ~sent[Cur(First)]))
    /\ [][Latest => \A r \in Records : \A ok \in BOOLEAN :
            Added(First, Call("send", r, ok)) =>
                /\ ~sent[r]
                /\ delivered[r] => Redeliverable(r)]_vars
    /\ [][Latest => \A r \in Records :
            (~Redeliverable(r) /\ Redeliverable(r)') =>
                /\ Added(First, Call("update", r, FALSE))
                /\ Succeeded(First, "send", r)]_vars
    /\ [](Latest => \A r \in Records : Redeliverable(r) => ~Succeeded(First, "update", r))

\* Of two pages one invocation delivered, the marked one is not fetched
\* again; the other, whose update failed, is fetched alone and its second send
\* is under way.
C17_Witness ==
    \E r, q \in Records :
        /\ Latest /\ pc[First] = "send" /\ Cur(First) = r
        /\ newPages[First] = <<r>>
        /\ Redeliverable(r)
        /\ sent[q] /\ delivered[q]

\* The invocation has answered with the 500 response of the outer catch.
Aborted(i) == Done(i) /\ Len(responses[i]) = 1 /\ responses[i][1].status = 500

\* C18: the three handlers without a try/catch per page (both of send-email.js
\* and the first of index.js), invocations one at a time: a failed call, or an
\* extraction that throws, is the last thing the invocation does before its one
\* 500 response. After it the pages before the loop position are updated and
\* marked, the page at the position and the later ones are unmarked, and the
\* later ones have had no call. A delivered page left unmarked is the first
\* page of the next successful query, and the first call after that query is
\* its send.
C18_FirstFailureAbortsInvocation ==
    /\ []((variant # "latest") =>
            /\ \A k \in 1..Len(calls[First]) :
                 ~calls[First][k].ok =>
                     /\ k = Len(calls[First])
                     /\ Done(First)
                     /\ responses[First] = <<ErrorResponse(variant, calls[First][k].op)>>
            /\ ThrewTypeError(First) =>
                 /\ Done(First)
                 /\ responses[First] = <<ErrorResponse(variant, "TypeError")>>
                 /\ \A op \in {"send", "flask", "update"} :
                      Count(First, op, Cur(First)) = 0
            /\ (Aborted(First) /\ Succeeded(First, "query", 0)) =>
                 /\ idx[First] <= Len(newPages[First])
                 /\ \A k \in 1..Len(newPages[First]) :
                      /\ k < idx[First] =>
                           /\ Succeeded(First, "update", newPages[First][k])
                           /\ sent[newPages[First][k]]
                      /\ k >= idx[First] =>
                           /\ ~sent[newPages[First][k]]
                           /\ ~Succeeded(First, "update", newPages[First][k])
                      /\ k > idx[First] =>
                           \A op \in {"send", "flask", "update"} :
                               Count(First, op, newPages[First][k]) = 0
            /\ Len(calls[First]) >= 2 =>
                 /\ calls[First][2].op = "send"
                 /\ calls[First][2].rec = newPages[First][1])
    /\ [][(variant # "latest" /\ Added(First, Call("query", 0, TRUE))) =>
            \A r \in Records : Redeliverable(r) => newPages'[First][1] = r]_vars

\* First Mailtrap variant: the first page is marked, the second was delivered,
\* its Flask call was rejected, and the invocation has answered 500.
C18_Witness ==
    /\ variant = "mailtrapFirst" /\ Aborted(First) /\ idx[First] = 2
    /\ sent[newPages[First][1]]
    /\ Succeeded(First, "send", newPages[First][2])
    /\ Failed(First, "flask", newPages[First][2])
    /\ Redeliverable(newPages[First][2])

\* The lines of a text, by the places of its line feeds.
Breaks(s) == {k \in 1..Len(s) : s[k] = NL}
LineCount(s) == Cardinality(Breaks(s)) + 1
\* The n-th line feed of s.
Break(s, n) == CHOOSE k \in Breaks(s) : Cardinality({h \in Breaks(s) : h <= k}) = n
Line(s, n) ==
    SubSeq(s, IF n = 1 THEN 1 ELSE Break(s, n - 1) + 1,
              IF n = LineCount(s) THEN Len(s) ELSE Break(s, n) - 1)
Lines(s) == [n \in 1..LineCount(s) |-> Line(s, n)]
Blank(l) == \A k \in 1..Len(l) : l[k] \in Whitespace
\* The lines that are not empty after trimming, in the order of the text.
KeptLines(s) == SelectSeq(Lines(s), LAMBDA l : ~Blank(l))
\* The two list sections of the message about to be sent: text and items.
ListSections(i) ==
    {<<message[i].fields["Action Items"], message[i].html.actionItems>>,
     <<message[i].fields["Key Questions"], message[i].html.keyQuestions>>}

\* C19: in every handler the items of the rendered Action Items and Key
\* Questions lists are, in order, the lines of the text that are not empty
\* after trimming, each with its leading and trailing whitespace removed; a
\* blank line gives no item.
C19_ItemsAreTrimmedLines ==
    pc[First] = "send" =>
        \A sec \in ListSections(First) :
            sec[2] = [k \in 1..Len(KeptLines(sec[1])) |-> Trim(KeptLines(sec[1])[k])]

=============================================================================
